---- MODULE Spec2Model ----
(***************************************************************************)
(* Model of the pricing calculations of the Dynamic Pricing Engine         *)
(* (frontend/src/utils/calculations.ts) together with the guardrail        *)
(* validator and the optimize entry point of the backend.                  *)
(*                                                                         *)
(* A JavaScript number is modelled as a record [k, n, d]:                  *)
(*   k = "fin"  the finite value n/d, d > 0, in lowest terms;              *)
(*   k = "inf"  +Infinity (n = 1) or -Infinity (n = -1);                   *)
(*   k = "nan"  NaN.                                                       *)
(* Finite arithmetic is exact (rounding of doubles is not modelled); the   *)
(* non-finite outcomes follow IEEE 754 as JavaScript evaluates them.  The  *)
(* sign of zero is not modelled: every zero divisor the modelled code can  *)
(* produce (1 - 100/100, a visitor count of 0, the square root of +0) is   *)
(* +0.                                                                     *)
(***************************************************************************)
EXTENDS Integers, Sequences, FiniteSets, TLC

VARIABLES optIn, optOut, optPrev, grdIn, grdOut, sigIn, sigOut, calcIn, calcOut,
          hook, apiCalls, browser, requests, db

vars ==
    <<optIn, optOut, optPrev, grdIn, grdOut, sigIn, sigOut, calcIn, calcOut,
      hook, apiCalls, browser, requests, db>>

(***************************************************************************)
(* Bounds of the explored inputs.                                          *)
(***************************************************************************)
MaxCost == 2
MaxPrice == 3
MaxMarginStep == 3
WeightSteps == 2
MaxHours == 1
MaxVisitors == 3

(***************************************************************************)
(* JavaScript numbers.                                                     *)
(***************************************************************************)
AbsInt(i) == IF i < 0 THEN -i ELSE i

RECURSIVE GCD(_, _)
GCD(a, b) == IF b = 0 THEN a ELSE GCD(b, a % b)

NaN == [k |-> "nan", n |-> 0, d |-> 1]

Inf(s) == [k |-> "inf", n |-> s, d |-> 1]

Fin(n, d) ==
    LET g == GCD(AbsInt(n), AbsInt(d))
        s == IF d < 0 THEN -1 ELSE 1
    IN  [k |-> "fin", n |-> (s * n) \div g, d |-> (s * d) \div g]

Int2Num(i) == Fin(i, 1)

IsNaN(x) == x.k = "nan"

IsZero(x) == x.k = "fin" /\ x.n = 0

SignOf(x) == IF x.n > 0 THEN 1 ELSE IF x.n < 0 THEN -1 ELSE 0

Neg(x) == IF x.k = "nan" THEN NaN ELSE [x EXCEPT !.n = -x.n]

Add(x, y) ==
    IF IsNaN(x) \/ IsNaN(y) THEN NaN
    ELSE IF x.k = "inf" /\ y.k = "inf" THEN (IF x.n = y.n THEN x ELSE NaN)
    ELSE IF x.k = "inf" THEN x
    ELSE IF y.k = "inf" THEN y
    ELSE Fin(x.n * y.d + y.n * x.d, x.d * y.d)

Sub(x, y) == Add(x, Neg(y))

Mul(x, y) ==
    IF IsNaN(x) \/ IsNaN(y) THEN NaN
    ELSE IF x.k = "inf" \/ y.k = "inf"
         THEN (IF IsZero(x) \/ IsZero(y) THEN NaN ELSE Inf(SignOf(x) * SignOf(y)))
    ELSE Fin(x.n * y.n, x.d * y.d)

Div(x, y) ==
    IF IsNaN(x) \/ IsNaN(y) THEN NaN
    ELSE IF x.k = "inf"
         THEN (IF y.k = "inf" THEN NaN
               ELSE Inf(IF SignOf(y) < 0 THEN -x.n ELSE x.n))
    ELSE IF y.k = "inf" THEN Int2Num(0)
    ELSE IF IsZero(y) THEN (IF IsZero(x) THEN NaN ELSE Inf(SignOf(x)))
    ELSE Fin(x.n * y.d, x.d * y.n)

\* x < y as JavaScript compares numbers: false when either side is NaN.
Lt(x, y) ==
    IF IsNaN(x) \/ IsNaN(y) THEN FALSE
    ELSE IF x.k = "inf" THEN x.n < 0 /\ ~(y.k = "inf" /\ y.n < 0)
    ELSE IF y.k = "inf" THEN y.n > 0
    ELSE x.n * y.d < y.n * x.d

Gt(x, y) == Lt(y, x)

StrictEq(x, y) == ~IsNaN(x) /\ ~IsNaN(y) /\ x = y

MathMin(x, y) == IF IsNaN(x) \/ IsNaN(y) THEN NaN ELSE IF Lt(y, x) THEN y ELSE x

MathMax(x, y) == IF IsNaN(x) \/ IsNaN(y) THEN NaN ELSE IF Lt(x, y) THEN y ELSE x

MathAbs(x) == IF x.k = "nan" THEN NaN ELSE [x EXCEPT !.n = AbsInt(x.n)]

(***************************************************************************)
(* Math.sqrt and Math.exp.  Their results, and the steps of normalCDF, are *)
(* carried to four decimals (FxScale); the non-finite cases are exact.     *)
(***************************************************************************)
FxScale == 100 * 100

RECURSIVE Pow10(_)
Pow10(k) == IF k = 0 THEN 1 ELSE 10 * Pow10(k - 1)

\* floor(r * 10^k / d) for 0 <= r < d, by long division.
RECURSIVE FracDigits(_, _, _)
FracDigits(r, d, k) ==
    IF k = 0 THEN 0
    ELSE ((r * 10) \div d) * Pow10(k - 1) + FracDigits((r * 10) % d, d, k - 1)

\* floor(x * 10^k) for a finite x >= 0.
ToFixed(x, k) == (x.n \div x.d) * Pow10(k) + FracDigits(x.n % x.d, x.d, k)

\* A number carried to four decimals (truncated towards zero).
Fl(x) ==
    IF x.k # "fin" THEN x
    ELSE IF x.n < 0 THEN Neg(Fin(ToFixed(Neg(x), 4), FxScale))
    ELSE Fin(ToFixed(x, 4), FxScale)

\* The integer square root of v, lo <= sqrt(v) < hi.
RECURSIVE ISqrt(_, _, _)
ISqrt(v, lo, hi) ==
    IF hi - lo <= 1 THEN lo
    ELSE LET mid == (lo + hi) \div 2
         IN  IF mid * mid <= v THEN ISqrt(v, mid, hi) ELSE ISqrt(v, lo, mid)

\* Math.sqrt(x), for finite x below 20.
MathSqrt(x) ==
    IF IsNaN(x) THEN NaN
    ELSE IF x.n < 0 THEN NaN
    ELSE IF x.k = "inf" THEN x
    ELSE Fin(ISqrt(ToFixed(x, 8), 0, 46341), FxScale)

\* exp(-f / FxScale) * FxScale for 0 <= f <= FxScale: the Taylor series to
\* the term of order `terms`, from the term of order i on.
RECURSIVE ExpNegSeries(_, _, _)
ExpNegSeries(f, i, terms) ==
    IF i > terms THEN FxScale
    ELSE FxScale - ((f * ExpNegSeries(f, i + 1, terms)) \div FxScale) \div i

\* b^k in fixed point.
RECURSIVE PowFx(_, _)
PowFx(b, k) == IF k = 0 THEN FxScale ELSE (PowFx(b, k - 1) * b) \div FxScale

\* Math.exp(-z * z).  For z >= 4 the value is below 2 * 10^-7 and is 0 to
\* four decimals.
MathExpNegSquare(z) ==
    IF IsNaN(z) THEN NaN
    ELSE IF z.k = "inf" THEN Int2Num(0)
    ELSE IF ~Lt(MathAbs(z), Int2Num(4)) THEN Int2Num(0)
    ELSE LET u == ToFixed(Mul(z, z), 4)
         IN  Fin((PowFx(ExpNegSeries(FxScale, 1, 9), u \div FxScale)
                    * ExpNegSeries(u % FxScale, 1, 9)) \div FxScale,
                 FxScale)

(***************************************************************************)
(* Price calculations (calculations.ts).                                   *)
(***************************************************************************)
calculateMargin(price, cost) ==
    IF StrictEq(price, Int2Num(0)) THEN Int2Num(0)
    ELSE Mul(Div(Sub(price, cost), price), Int2Num(100))

\* Faulty variant: the price is computed from a markup.
calculatePriceFromMargin_AsMarkup(cost, marginPercent) ==
    Mul(cost, Add(Int2Num(1), Div(marginPercent, Int2Num(100))))

calculatePriceFromMargin(cost, marginPercent) ==
    Div(cost, Sub(Int2Num(1), Div(marginPercent, Int2Num(100))))

\* Faulty variant: the ceiling is not applied.
ClampToBounds_NoCeiling(weightedPrice, minPrice, maxPrice) ==
    MathMax(minPrice, weightedPrice)

\* Faulty variant: the floor is not applied.
ClampToBounds_NoFloor(weightedPrice, minPrice, maxPrice) ==
    MathMin(maxPrice, weightedPrice)

\* Math.max(minPrice, Math.min(maxPrice, weightedPrice))
ClampToBounds(weightedPrice, minPrice, maxPrice) ==
    MathMax(minPrice, MathMin(maxPrice, weightedPrice))

\* Faulty variant: the two weights are swapped.
WeightedPrice_Swapped(marginBasedPrice, competitorPrice, competitorWeight) ==
    Add(Mul(marginBasedPrice, competitorWeight),
        Mul(competitorPrice, Sub(Int2Num(1), competitorWeight)))

WeightedPrice(marginBasedPrice, competitorPrice, competitorWeight) ==
    Add(Mul(marginBasedPrice, Sub(Int2Num(1), competitorWeight)),
        Mul(competitorPrice, competitorWeight))

\* Faulty variant: the number of calls completed so far leaks into the price.
calculateOptimalPrice_CountsCalls(baseCost, targetMargin, competitorPrice, competitorWeight, minPrice, maxPrice) ==
    Add(ClampToBounds(WeightedPrice(calculatePriceFromMargin(baseCost, targetMargin),
                                    competitorPrice, competitorWeight),
                      minPrice, maxPrice),
        Int2Num(Len(calcOut.order)))

calculateOptimalPrice(baseCost, targetMargin, competitorPrice, competitorWeight, minPrice, maxPrice) ==
    LET marginBasedPrice == calculatePriceFromMargin(baseCost, targetMargin)
        weightedPrice == WeightedPrice(marginBasedPrice, competitorPrice,
                                       competitorWeight)
    IN  ClampToBounds(weightedPrice, minPrice, maxPrice)

(***************************************************************************)
(* GuardrailValidator.validate and OptimalPriceCalculator.optimize: the    *)
(* backend's guardrail check and the entry point that attaches its result  *)
(* to the recommended price.                                               *)
(***************************************************************************)
ConstraintKind ==
    {"BelowFloor", "AboveCeiling", "MarginViolation", "ChangeTooLarge", "TooSoon"}

ChangePct(candidatePrice, currentPrice) ==
    Mul(Div(MathAbs(Sub(candidatePrice, currentPrice)), currentPrice), Int2Num(100))

\* Faulty variant: the validator stops at the first violated constraint.
validate_FirstOnly(candidatePrice, input) ==
    IF Lt(candidatePrice, input.minPrice) THEN {"BelowFloor"}
    ELSE IF Gt(candidatePrice, input.maxPrice) THEN {"AboveCeiling"}
    ELSE IF Lt(calculateMargin(candidatePrice, input.cost), input.minMarginPct)
         THEN {"MarginViolation"}
    ELSE IF ~StrictEq(input.currentPrice, Int2Num(0))
            /\ Gt(ChangePct(candidatePrice, input.currentPrice), input.maxChangePct)
         THEN {"ChangeTooLarge"}
    ELSE IF Lt(input.hoursSinceChange, input.minHoursBetweenChanges)
         THEN {"TooSoon"}
    ELSE {}

\* Faulty variant: the floor is exclusive (a price equal to minPrice is rejected).
validate_ExclusiveFloor(candidatePrice, input) ==
    (IF ~Gt(candidatePrice, input.minPrice) THEN {"BelowFloor"} ELSE {})
    \cup (IF Gt(candidatePrice, input.maxPrice) THEN {"AboveCeiling"} ELSE {})
    \cup (IF Lt(calculateMargin(candidatePrice, input.cost), input.minMarginPct)
          THEN {"MarginViolation"} ELSE {})
    \cup (IF ~StrictEq(input.currentPrice, Int2Num(0))
             /\ Gt(ChangePct(candidatePrice, input.currentPrice), input.maxChangePct)
          THEN {"ChangeTooLarge"} ELSE {})
    \cup (IF Lt(input.hoursSinceChange, input.minHoursBetweenChanges)
          THEN {"TooSoon"} ELSE {})

validate(candidatePrice, input) ==
    (IF Lt(candidatePrice, input.minPrice) THEN {"BelowFloor"} ELSE {})
    \cup (IF Gt(candidatePrice, input.maxPrice) THEN {"AboveCeiling"} ELSE {})
    \cup (IF Lt(calculateMargin(candidatePrice, input.cost), input.minMarginPct)
          THEN {"MarginViolation"} ELSE {})
    \cup (IF ~StrictEq(input.currentPrice, Int2Num(0))
             /\ Gt(ChangePct(candidatePrice, input.currentPrice), input.maxChangePct)
          THEN {"ChangeTooLarge"} ELSE {})
    \cup (IF Lt(input.hoursSinceChange, input.minHoursBetweenChanges)
          THEN {"TooSoon"} ELSE {})

\* The outcome of a call that returned a value (a call that threw would
\* have the outcome "thrown"; no modelled function throws).
Returned(v) == [outcome |-> "returned", value |-> v]

Pending == [outcome |-> "pending", value |-> << >>]

optimize(input) ==
    LET recommendedPrice ==
            calculateOptimalPrice(input.cost, input.targetMargin,
                                  input.competitorPrice, input.competitorWeight,
                                  input.minPrice, input.maxPrice)
    IN  Returned([recommendedPrice |-> recommendedPrice,
                  violatedConstraints |-> validate(recommendedPrice, input)])

(***************************************************************************)
(* Inputs.                                                                 *)
(***************************************************************************)
Costs == {Int2Num(i) : i \in 0..MaxCost}

Prices == {Int2Num(i) : i \in 0..MaxPrice}

\* Margin percentages in steps of 50: 0, 50, 100, 150.
Margins == {Int2Num(50 * i) : i \in 0..MaxMarginStep}

\* Competitor weights k/WeightSteps in [0, 1].
Weights == {Fin(i, WeightSteps) : i \in 0..WeightSteps}

Hours == {Int2Num(i) : i \in 0..MaxHours}

\* The guardrail settings sent with an optimization request: one that no
\* candidate price can violate beyond the bounds, and one that is strict on
\* margin, rate of change and cooldown.
GuardSettings ==
    {[currentPrice |-> Int2Num(0), minMarginPct |-> Int2Num(0),
      maxChangePct |-> Int2Num(50), hoursSinceChange |-> Int2Num(MaxHours),
      minHoursBetweenChanges |-> Int2Num(0)],
     [currentPrice |-> Int2Num(MaxPrice), minMarginPct |-> Int2Num(50),
      maxChangePct |-> Int2Num(50), hoursSinceChange |-> Int2Num(0),
      minHoursBetweenChanges |-> Int2Num(MaxHours)]}

OptInputs ==
    {[cost |-> c, targetMargin |-> m, competitorPrice |-> cp,
      competitorWeight |-> w, minPrice |-> lo, maxPrice |-> hi,
      currentPrice |-> g.currentPrice, minMarginPct |-> g.minMarginPct,
      maxChangePct |-> g.maxChangePct, hoursSinceChange |-> g.hoursSinceChange,
      minHoursBetweenChanges |-> g.minHoursBetweenChanges] :
        c \in Costs, m \in Margins, cp \in Prices, w \in Weights,
        lo \in Prices, hi \in Prices, g \in GuardSettings}

\* The calls made before the last one (at most the previous call is kept).
NoCall == << >>

Idle == "idle"

(***************************************************************************)
(* Optimizer calls.                                                        *)
(***************************************************************************)
InitOpt ==
    /\ optIn \in OptInputs
    /\ optOut = Pending
    /\ optPrev = NoCall
    /\ grdIn = Idle /\ grdOut = Idle
    /\ sigIn = Idle /\ sigOut = Idle
    /\ calcIn = Idle /\ calcOut = Idle
    /\ hook = Idle /\ apiCalls = Idle /\ browser = Idle
    /\ requests = Idle /\ db = Idle

\* optimizePrice(input)
Optimize ==
    /\ optOut.outcome = "pending"
    /\ optOut' = optimize(optIn)
    /\ UNCHANGED <<optIn, optPrev, grdIn, grdOut, sigIn, sigOut, calcIn, calcOut,
                 hook, apiCalls, browser, requests, db>>

\* A second call whose input differs from the last one in competitorPrice only.
Reprice ==
    /\ optOut.outcome # "pending"
    /\ \E cp \in Prices \ {optIn.competitorPrice} :
          /\ optPrev' = <<[in |-> optIn, out |-> optOut]>>
          /\ optIn' = [optIn EXCEPT !.competitorPrice = cp]
          /\ optOut' = optimize(optIn')
    /\ UNCHANGED <<grdIn, grdOut, sigIn, sigOut, calcIn, calcOut,
                 hook, apiCalls, browser, requests, db>>

NextOpt == Optimize \/ Reprice

SpecOpt == InitOpt /\ [][NextOpt]_vars

(***************************************************************************)
(* Properties of the optimizer (checked under SpecOpt).                    *)
(***************************************************************************)
OptDone == optOut.outcome # "pending"

RecommendedPrice == optOut.value.recommendedPrice

\* The weighted price as the fraction WNum / WDen, in integers, for a
\* target margin other than 100 (inputs other than the weight are integers).
WDen == (100 - optIn.targetMargin.n) * optIn.competitorWeight.d

WNum ==
    optIn.cost.n * 100 * (optIn.competitorWeight.d - optIn.competitorWeight.n)
    + optIn.competitorPrice.n * optIn.competitorWeight.n
      * (100 - optIn.targetMargin.n)

BoundsOrdered == optIn.minPrice.n <= optIn.maxPrice.n

\* C2: with targetMargin >= 100 the calculator fails with an explicit error
\* and returns no price.
C2_FailsFastOnMargin ==
    (OptDone /\ optIn.targetMargin.n >= 100) => optOut.outcome = "thrown"

\* C3: with minPrice > maxPrice the calculator fails with an explicit error
\* and returns no price.
C3_RejectsInvertedBounds ==
    (OptDone /\ optIn.minPrice.n > optIn.maxPrice.n) => optOut.outcome = "thrown"

\* C4: with minPrice <= maxPrice and targetMargin < 100 the returned price
\* lies in [minPrice, maxPrice], and it is the weighted price exactly when
\* the weighted price lies in [minPrice, maxPrice].
C4_ClampedIntoBounds ==
    (OptDone /\ BoundsOrdered /\ optIn.targetMargin.n < 100) =>
        /\ optOut.outcome = "returned"
        /\ RecommendedPrice.k = "fin"
        /\ optIn.minPrice.n * RecommendedPrice.d <= RecommendedPrice.n
        /\ RecommendedPrice.n <= optIn.maxPrice.n * RecommendedPrice.d
        /\ (RecommendedPrice.n * WDen = WNum * RecommendedPrice.d)
           <=> (optIn.minPrice.n * WDen <= WNum /\ WNum <= optIn.maxPrice.n * WDen)

C4_Witness ==
    /\ OptDone /\ BoundsOrdered /\ optIn.targetMargin.n < 100
    /\ optIn.minPrice.n < optIn.maxPrice.n
    /\ WNum > optIn.maxPrice.n * WDen
    /\ RecommendedPrice = optIn.maxPrice

\* C6: with competitorWeight = 0 the returned price is the clamped
\* margin-based price, and two calls that differ only in competitorPrice
\* return the same price.
C6_WeightZeroIgnoresCompetitor ==
    (OptDone /\ optIn.competitorWeight = Int2Num(0)) =>
        /\ RecommendedPrice =
              ClampToBounds(calculatePriceFromMargin(optIn.cost, optIn.targetMargin),
                            optIn.minPrice, optIn.maxPrice)
        /\ optPrev # NoCall =>
              /\ optPrev[1].in = [optIn EXCEPT
                                     !.competitorPrice = optPrev[1].in.competitorPrice]
              /\ optPrev[1].out.value.recommendedPrice = RecommendedPrice

C6_Witness ==
    /\ OptDone /\ optPrev # NoCall
    /\ optIn.competitorWeight = Int2Num(0)
    /\ optPrev[1].in.competitorPrice # optIn.competitorPrice
    /\ optIn.cost.n > 0 /\ optIn.targetMargin.n = 50
    /\ RecommendedPrice = Int2Num(2 * optIn.cost.n)
    /\ RecommendedPrice # optIn.competitorPrice
    /\ RecommendedPrice # optPrev[1].in.competitorPrice

\* C7: with competitorWeight = 1 every call the calculator accepts (it
\* returns a price) returns the clamped competitor price, whatever the cost
\* and the target margin.
C7_WeightOneAnchorsToCompetitor ==
    (OptDone /\ optIn.competitorWeight = Int2Num(1) /\ optOut.outcome = "returned") =>
        RecommendedPrice =
            ClampToBounds(optIn.competitorPrice, optIn.minPrice, optIn.maxPrice)

GuardInputs ==
    [candidatePrice : Prices, cost : Costs, currentPrice : Prices,
     minPrice : Prices, maxPrice : Prices,
     minMarginPct : {Int2Num(0), Int2Num(50)},
     maxChangePct : {Int2Num(50)},
     hoursSinceChange : Hours, minHoursBetweenChanges : Hours]

InitGuard ==
    /\ grdIn \in GuardInputs
    /\ grdOut = Pending
    /\ optIn = Idle /\ optOut = Idle /\ optPrev = NoCall
    /\ sigIn = Idle /\ sigOut = Idle
    /\ calcIn = Idle /\ calcOut = Idle
    /\ hook = Idle /\ apiCalls = Idle /\ browser = Idle
    /\ requests = Idle /\ db = Idle

\* validateConstraints(price, input)
Validate ==
    /\ grdOut.outcome = "pending"
    /\ grdOut' = Returned(validate(grdIn.candidatePrice, grdIn))
    /\ UNCHANGED <<grdIn, optIn, optOut, optPrev, sigIn, sigOut, calcIn, calcOut,
                 hook, apiCalls, browser, requests, db>>

\* The caller asks about another candidate price for the same input.
Revalidate ==
    /\ grdOut.outcome # "pending"
    /\ \E c \in Prices \ {grdIn.candidatePrice} :
          /\ grdIn' = [grdIn EXCEPT !.candidatePrice = c]
          /\ grdOut' = Returned(validate(c, grdIn'))
    /\ UNCHANGED <<optIn, optOut, optPrev, sigIn, sigOut, calcIn, calcOut,
                 hook, apiCalls, browser, requests, db>>

NextGuard == Validate \/ Revalidate

SpecGuard == InitGuard /\ [][NextGuard]_vars

(***************************************************************************)
(* Properties of the validator (checked under SpecGuard).  The inputs are  *)
(* whole numbers, so each constraint is stated in integers.                *)
(***************************************************************************)
GuardDone == grdOut.outcome = "returned"

Violated(kind) ==
    LET cand == grdIn.candidatePrice.n
        cur == grdIn.currentPrice.n
    IN  CASE kind = "BelowFloor" -> cand < grdIn.minPrice.n
          [] kind = "AboveCeiling" -> cand > grdIn.maxPrice.n
          [] kind = "MarginViolation" ->
                IF cand = 0 THEN 0 < grdIn.minMarginPct.n
                ELSE (cand - grdIn.cost.n) * 100 < grdIn.minMarginPct.n * cand
          [] kind = "ChangeTooLarge" ->
                cur # 0 /\ AbsInt(cand - cur) * 100 > grdIn.maxChangePct.n * cur
          [] kind = "TooSoon" ->
                grdIn.hoursSinceChange.n < grdIn.minHoursBetweenChanges.n

\* C9: validate returns exactly the set of violated constraints: empty when
\* none is violated, all of them otherwise, and never ChangeTooLarge when
\* currentPrice = 0.
C9_ValidateReturnsAllViolations ==
    GuardDone =>
        /\ grdOut.value = {kind \in ConstraintKind : Violated(kind)}
        /\ grdIn.currentPrice.n = 0 => "ChangeTooLarge" \notin grdOut.value

C9_Witness ==
    /\ GuardDone
    /\ Cardinality(grdOut.value) >= 3
    /\ "BelowFloor" \in grdOut.value
    /\ "ChangeTooLarge" \in grdOut.value

\* C10: a candidate price equal to minPrice is not BelowFloor; a candidate
\* price below minPrice, one unit below included, is BelowFloor.
C10_FloorIsInclusive ==
    GuardDone =>
        /\ grdIn.candidatePrice = grdIn.minPrice => "BelowFloor" \notin grdOut.value
        /\ grdIn.candidatePrice.n < grdIn.minPrice.n => "BelowFloor" \in grdOut.value

C10_Witness ==
    /\ GuardDone
    /\ grdIn.minPrice.n > 0
    /\ grdIn.candidatePrice = grdIn.minPrice
    /\ "BelowFloor" \notin grdOut.value
    /\ grdOut.value # {}

(***************************************************************************)
(* Experiment calculations (calculations.ts).                              *)
(***************************************************************************)
\* A coefficient given in units of 10^-9, carried to four decimals.
Coef(nanos) == Fin((nanos + 50000) \div 100000, FxScale)

normalCDF(z0) ==
    LET a1 == Coef(254829592)
        a2 == Neg(Coef(284496736))
        a3 == Coef(1421413741)
        a4 == Neg(Coef(1453152027))
        a5 == Coef(1061405429)
        p == Coef(327591100)
        sign == IF Lt(z0, Int2Num(0)) THEN Int2Num(-1) ELSE Int2Num(1)
        z == Fl(Div(MathAbs(z0), MathSqrt(Int2Num(2))))
        t == Fl(Div(Int2Num(1), Add(Int2Num(1), Fl(Mul(p, z)))))
        h4 == Add(Fl(Mul(a5, t)), a4)
        h3 == Add(Fl(Mul(h4, t)), a3)
        h2 == Add(Fl(Mul(h3, t)), a2)
        h1 == Add(Fl(Mul(h2, t)), a1)
        y == Sub(Int2Num(1), Fl(Mul(Fl(Mul(h1, t)), MathExpNegSquare(z))))
    IN  Mul(Fin(1, 2), Add(Int2Num(1), Mul(sign, y)))

\* The default of the optional parameter confidenceLevel.
DefaultConfidenceLevel == Fin(95, 100)

\* Faulty variant: the difference of the proportions keeps its sign.
ZScore_NoAbs(p1, p2, se) == Div(Sub(p1, p2), se)

\* z = Math.abs(p1 - p2) / se
ZScore(p1, p2, se) == Div(MathAbs(Sub(p1, p2)), se)

\* Faulty variant: a pValue equal to the threshold counts as significant.
IsSignificant_Inclusive(pValue, confidenceLevel) ==
    ~IsNaN(pValue) /\ ~Gt(pValue, Sub(Int2Num(1), confidenceLevel))

\* isSignificant: pValue < (1 - confidenceLevel)
IsSignificant(pValue, confidenceLevel) ==
    Lt(pValue, Sub(Int2Num(1), confidenceLevel))

calculateStatisticalSignificance(controlConversions, controlVisitors, variantConversions, variantVisitors, confidenceArg) ==
    LET confidenceLevel ==
            IF confidenceArg = << >> THEN DefaultConfidenceLevel
            ELSE confidenceArg[1]
        p1 == Div(controlConversions, controlVisitors)
        p2 == Div(variantConversions, variantVisitors)
        p == Div(Add(controlConversions, variantConversions),
                 Add(controlVisitors, variantVisitors))
        se == MathSqrt(Mul(Mul(p, Sub(Int2Num(1), p)),
                           Add(Div(Int2Num(1), controlVisitors),
                               Div(Int2Num(1), variantVisitors))))
        z == ZScore(p1, p2, se)
        pValue == Mul(Int2Num(2), Sub(Int2Num(1), normalCDF(z)))
    IN  Returned([isSignificant |-> IsSignificant(pValue, confidenceLevel),
                  pValue |-> pValue])

(***************************************************************************)
(* Significance evaluations.                                               *)
(***************************************************************************)
Counts == {Int2Num(i) : i \in 0..MaxVisitors}

\* The confidenceLevel argument: omitted, or given.
ConfidenceArgs ==
    {<< >>, <<Fin(90, 100)>>, <<Fin(95, 100)>>, <<Fin(99, 100)>>, <<Int2Num(1)>>}

\* Two experiments of 1000 visitors per arm: 100 against 130 conversions,
\* and none against all.
LargeExperiments ==
    {[controlConversions |-> Int2Num(100), controlVisitors |-> Int2Num(1000),
      variantConversions |-> Int2Num(130), variantVisitors |-> Int2Num(1000)],
     [controlConversions |-> Int2Num(0), controlVisitors |-> Int2Num(1000),
      variantConversions |-> Int2Num(1000), variantVisitors |-> Int2Num(1000)]}

SigInputs ==
    [controlConversions : Counts, controlVisitors : Counts,
     variantConversions : Counts, variantVisitors : Counts,
     confidenceLevel : ConfidenceArgs]
    \cup {[controlConversions |-> e.controlConversions,
            controlVisitors |-> e.controlVisitors,
            variantConversions |-> e.variantConversions,
            variantVisitors |-> e.variantVisitors,
            confidenceLevel |-> c] : e \in LargeExperiments, c \in ConfidenceArgs}

InitSig ==
    /\ sigIn \in SigInputs
    /\ sigOut = Pending
    /\ optIn = Idle /\ optOut = Idle /\ optPrev = NoCall
    /\ grdIn = Idle /\ grdOut = Idle
    /\ calcIn = Idle /\ calcOut = Idle
    /\ hook = Idle /\ apiCalls = Idle /\ browser = Idle
    /\ requests = Idle /\ db = Idle

\* evaluateExperiment(control, variant, confidenceLevel?)
Evaluate ==
    /\ sigOut.outcome = "pending"
    /\ sigOut' = calculateStatisticalSignificance(
                     sigIn.controlConversions, sigIn.controlVisitors,
                     sigIn.variantConversions, sigIn.variantVisitors,
                     sigIn.confidenceLevel)
    /\ UNCHANGED <<sigIn, optIn, optOut, optPrev, grdIn, grdOut, calcIn, calcOut,
                 hook, apiCalls, browser, requests, db>>

\* The evaluation is asked again at another confidence level.
Reevaluate ==
    /\ sigOut.outcome # "pending"
    /\ \E c \in ConfidenceArgs \ {sigIn.confidenceLevel} :
          /\ sigIn' = [sigIn EXCEPT !.confidenceLevel = c]
          /\ sigOut' = calculateStatisticalSignificance(
                           sigIn.controlConversions, sigIn.controlVisitors,
                           sigIn.variantConversions, sigIn.variantVisitors, c)
    /\ UNCHANGED <<optIn, optOut, optPrev, grdIn, grdOut, calcIn, calcOut,
                 hook, apiCalls, browser, requests, db>>

NextSig == Evaluate \/ Reevaluate

SpecSig == InitSig /\ [][NextSig]_vars

(***************************************************************************)
(* Properties of the significance engine (checked under SpecSig).          *)
(***************************************************************************)
SigDone == sigOut.outcome # "pending"

ValidArm(conversions, visitors) ==
    visitors.n > 0 /\ 0 <= conversions.n /\ conversions.n <= visitors.n

ValidArms ==
    /\ ValidArm(sigIn.controlConversions, sigIn.controlVisitors)
    /\ ValidArm(sigIn.variantConversions, sigIn.variantVisitors)

InUnitInterval(x) == x.k = "fin" /\ 0 <= x.n /\ x.n <= x.d

\* C1: with controlVisitors = 0 or variantVisitors = 0 the evaluation ends
\* in an explicit error, never in a verdict record.
C1_ZeroVisitorsIsAnError ==
    (SigDone /\ (sigIn.controlVisitors.n = 0 \/ sigIn.variantVisitors.n = 0)) =>
        sigOut.outcome = "thrown"

\* C5: for every valid pair of arms the verdict's pValue is a number in
\* [0, 1].
C5_PValueInUnitInterval ==
    (SigDone /\ ValidArms) =>
        /\ sigOut.outcome = "returned"
        /\ InUnitInterval(sigOut.value.pValue)

ConfidenceLevelOf(input) ==
    IF input.confidenceLevel = << >> THEN Fin(95, 100)
    ELSE input.confidenceLevel[1]

\* pValue < 1 - level, on the numerators and denominators.
BelowThreshold(pValue, level) ==
    pValue.k = "fin" /\ pValue.n * level.d < (level.d - level.n) * pValue.d

AtThreshold(pValue, level) ==
    pValue.k = "fin" /\ pValue.n * level.d = (level.d - level.n) * pValue.d

\* C11: isSignificant is true exactly when pValue < 1 - confidenceLevel,
\* strictly, the confidence level being 0.95 when the argument is omitted;
\* a pValue equal to the threshold is not significant.
C11_SignificantIffBelowThreshold ==
    (SigDone /\ sigOut.outcome = "returned") =>
        (sigOut.value.isSignificant <=>
            BelowThreshold(sigOut.value.pValue, ConfidenceLevelOf(sigIn)))

\* An evaluation whose pValue equals the threshold, reported not significant.
C11_Witness ==
    /\ SigDone /\ sigOut.outcome = "returned"
    /\ AtThreshold(sigOut.value.pValue, ConfidenceLevelOf(sigIn))
    /\ ~sigOut.value.isSignificant

IsLiftExperiment(input) ==
    /\ input.controlVisitors = Int2Num(1000)
    /\ input.controlConversions = Int2Num(100)
    /\ input.variantVisitors = Int2Num(1000)
    /\ input.variantConversions = Int2Num(130)
    /\ ConfidenceLevelOf(input) = Fin(95, 100)

\* C12: control {1000 visitors, 100 conversions} against variant {1000
\* visitors, 130 conversions} at confidence 0.95 is significant, with a
\* pValue below 0.05.
C12_LiftExperimentIsSignificant ==
    (SigDone /\ IsLiftExperiment(sigIn)) =>
        /\ sigOut.outcome = "returned"
        /\ sigOut.value.isSignificant = TRUE
        /\ sigOut.value.pValue.k = "fin"
        /\ 0 <= sigOut.value.pValue.n
        /\ sigOut.value.pValue.n * 100 < 5 * sigOut.value.pValue.d

\* The lift experiment evaluated with the confidence level omitted.
C12_Witness ==
    /\ SigDone /\ IsLiftExperiment(sigIn)
    /\ sigIn.confidenceLevel = << >>
    /\ sigOut.outcome = "returned"
    /\ sigOut.value.isSignificant

(***************************************************************************)
(* calculateLinearTrend and forecastValue.                                 *)
(***************************************************************************)
MaxPoints == 3
MaxX == 2
MaxY == 2

\* values.reduce((sum, val) => sum + val, 0)
RECURSIVE SumOf(_)
SumOf(values) ==
    IF values = << >> THEN Int2Num(0)
    ELSE Add(SumOf(SubSeq(values, 1, Len(values) - 1)), values[Len(values)])

\* Faulty variant: the intercept is not divided by the number of points.
LeastSquares_InterceptNotAveraged(data) ==
    LET n == Int2Num(Len(data))
        sumX == SumOf([i \in 1..Len(data) |-> data[i].x])
        sumY == SumOf([i \in 1..Len(data) |-> data[i].y])
        sumXY == SumOf([i \in 1..Len(data) |-> Mul(data[i].x, data[i].y)])
        sumX2 == SumOf([i \in 1..Len(data) |-> Mul(data[i].x, data[i].x)])
        slope == Div(Sub(Mul(n, sumXY), Mul(sumX, sumY)),
                     Sub(Mul(n, sumX2), Mul(sumX, sumX)))
        intercept == Sub(sumY, Mul(slope, sumX))
    IN  [slope |-> slope, intercept |-> intercept]

\* The sums, slope and intercept of calculateLinearTrend.
LeastSquares(data) ==
    LET n == Int2Num(Len(data))
        sumX == SumOf([i \in 1..Len(data) |-> data[i].x])
        sumY == SumOf([i \in 1..Len(data) |-> data[i].y])
        sumXY == SumOf([i \in 1..Len(data) |-> Mul(data[i].x, data[i].y)])
        sumX2 == SumOf([i \in 1..Len(data) |-> Mul(data[i].x, data[i].x)])
        slope == Div(Sub(Mul(n, sumXY), Mul(sumX, sumY)),
                     Sub(Mul(n, sumX2), Mul(sumX, sumX)))
        intercept == Div(Sub(sumY, Mul(slope, sumX)), n)
    IN  [slope |-> slope, intercept |-> intercept]

\* Faulty variant: fewer than two points are fitted like any other input.
calculateLinearTrend_NoShortGuard(data) == LeastSquares(data)

calculateLinearTrend(data) ==
    IF Len(data) < 2 THEN [slope |-> Int2Num(0), intercept |-> Int2Num(0)]
    ELSE LeastSquares(data)

forecastValue(slope, intercept, x) == Add(Mul(slope, x), intercept)

DataPoints == {[x |-> Int2Num(i), y |-> Int2Num(j)] : i \in 0..MaxX, j \in 0..MaxY}

TrendData == UNION {[1..len -> DataPoints] : len \in 0..MaxPoints}

InitTrend ==
    /\ calcIn \in {[fn |-> "calculateLinearTrend", data |-> d] : d \in TrendData}
    /\ calcOut = Pending
    /\ optIn = Idle /\ optOut = Idle /\ optPrev = NoCall
    /\ grdIn = Idle /\ grdOut = Idle
    /\ sigIn = Idle /\ sigOut = Idle
    /\ hook = Idle /\ apiCalls = Idle /\ browser = Idle
    /\ requests = Idle /\ db = Idle

\* calculateLinearTrend(data)
FitTrend ==
    /\ calcIn.fn = "calculateLinearTrend"
    /\ calcOut.outcome = "pending"
    /\ calcOut' = Returned(calculateLinearTrend(calcIn.data))
    /\ UNCHANGED <<optIn, optOut, optPrev, grdIn, grdOut, sigIn, sigOut, calcIn,
                 hook, apiCalls, browser, requests, db>>

\* forecastValue(slope, intercept, x) at the x of one of the fitted points
Forecast ==
    /\ calcIn.fn = "calculateLinearTrend"
    /\ calcOut.outcome = "returned"
    /\ \E i \in 1..Len(calcIn.data) :
        /\ calcIn' = [fn |-> "forecastValue", data |-> calcIn.data,
                       trend |-> calcOut.value, at |-> i]
        /\ calcOut' = Returned(forecastValue(calcOut.value.slope,
                                              calcOut.value.intercept,
                                              calcIn.data[i].x))
    /\ UNCHANGED <<optIn, optOut, optPrev, grdIn, grdOut, sigIn, sigOut,
                 hook, apiCalls, browser, requests, db>>

NextTrend == FitTrend \/ Forecast

SpecTrend == InitTrend /\ [][NextTrend]_vars

TrendDone == calcIn.fn = "calculateLinearTrend" /\ calcOut.outcome = "returned"

ZeroTrend == [slope |-> Int2Num(0), intercept |-> Int2Num(0)]

SameX(data) == \A i, j \in 1..Len(data) : data[i].x = data[j].x

\* C13: two or more points that all share one x (denominator
\* n * sum(x^2) - (sum x)^2 = 0) give {slope: 0, intercept: 0}, never NaN
\* or Infinity.
C13_SameXGivesZeroTrend ==
    (TrendDone /\ Len(calcIn.data) >= 2 /\ SameX(calcIn.data)) =>
        calcOut.value = ZeroTrend

\* C14: every input with fewer than two points, the empty input and a
\* single point, gives {slope: 0, intercept: 0}.
C14_FewerThanTwoPointsGiveZeroTrend ==
    (TrendDone /\ Len(calcIn.data) < 2) => calcOut.value = ZeroTrend

\* A single point fitted.
C14_Witness ==
    TrendDone /\ Len(calcIn.data) = 1 /\ calcOut.value = ZeroTrend

\* Every point of data lies on the line through p and q.
OnLine(data, p, q) ==
    \A i \in 1..Len(data) :
        (data[i].y.n - p.y.n) * (q.x.n - p.x.n)
            = (q.y.n - p.y.n) * (data[i].x.n - p.x.n)

\* The slope a and the intercept b of the line through p and q.
LineSlope(p, q) == Fin(q.y.n - p.y.n, q.x.n - p.x.n)

LineIntercept(p, q) ==
    Fin(p.y.n * (q.x.n - p.x.n) - (q.y.n - p.y.n) * p.x.n, q.x.n - p.x.n)

\* C15: for two or more points lying exactly on y = a*x + b, two of them
\* with distinct x, the fit returns slope a and intercept b, and
\* forecastValue at the x of each point returns that point's y.
C15_ExactLineRecovered ==
    \A i, j \in 1..(IF calcOut.outcome = "returned" THEN Len(calcIn.data) ELSE 0) :
        (/\ calcIn.data[i].x # calcIn.data[j].x
         /\ OnLine(calcIn.data, calcIn.data[i], calcIn.data[j])) =>
            /\ calcIn.fn = "calculateLinearTrend" =>
                /\ calcOut.value.slope = LineSlope(calcIn.data[i], calcIn.data[j])
                /\ calcOut.value.intercept
                       = LineIntercept(calcIn.data[i], calcIn.data[j])
            /\ calcIn.fn = "forecastValue" =>
                calcOut.value = calcIn.data[calcIn.at].y

\* The points (0, 0), (1, 2) fitted with slope 2 and intercept 0, and the
\* forecast at x = 1 returning 2.
C15_Witness ==
    /\ calcIn.fn = "forecastValue"
    /\ calcIn.data = <<[x |-> Int2Num(0), y |-> Int2Num(0)],
                       [x |-> Int2Num(1), y |-> Int2Num(2)]>>
    /\ calcIn.trend = [slope |-> Int2Num(2), intercept |-> Int2Num(0)]
    /\ calcIn.at = 2
    /\ calcOut = Returned(Int2Num(2))

(***************************************************************************)
(* calculatePriceElasticity.                                               *)
(***************************************************************************)
MaxQuantity == 2

\* Faulty variant: an unchanged price is divided by.
calculatePriceElasticity_NoFlatPriceGuard(oldPrice, newPrice, oldQuantity, newQuantity) ==
    IF StrictEq(oldPrice, Int2Num(0)) \/ StrictEq(oldQuantity, Int2Num(0))
    THEN Int2Num(0)
    ELSE LET percentChangeQuantity ==
                 Mul(Div(Sub(newQuantity, oldQuantity), oldQuantity), Int2Num(100))
             percentChangePrice ==
                 Mul(Div(Sub(newPrice, oldPrice), oldPrice), Int2Num(100))
         IN  Div(percentChangeQuantity, percentChangePrice)

\* Faulty variant: the price change is divided by the quantity change.
calculatePriceElasticity_Inverted(oldPrice, newPrice, oldQuantity, newQuantity) ==
    IF StrictEq(oldPrice, Int2Num(0)) \/ StrictEq(oldQuantity, Int2Num(0))
    THEN Int2Num(0)
    ELSE LET percentChangeQuantity ==
                 Mul(Div(Sub(newQuantity, oldQuantity), oldQuantity), Int2Num(100))
             percentChangePrice ==
                 Mul(Div(Sub(newPrice, oldPrice), oldPrice), Int2Num(100))
         IN  IF StrictEq(percentChangePrice, Int2Num(0)) THEN Int2Num(0)
             ELSE Div(percentChangePrice, percentChangeQuantity)

calculatePriceElasticity(oldPrice, newPrice, oldQuantity, newQuantity) ==
    IF StrictEq(oldPrice, Int2Num(0)) \/ StrictEq(oldQuantity, Int2Num(0))
    THEN Int2Num(0)
    ELSE LET percentChangeQuantity ==
                 Mul(Div(Sub(newQuantity, oldQuantity), oldQuantity), Int2Num(100))
             percentChangePrice ==
                 Mul(Div(Sub(newPrice, oldPrice), oldPrice), Int2Num(100))
         IN  IF StrictEq(percentChangePrice, Int2Num(0)) THEN Int2Num(0)
             ELSE Div(percentChangeQuantity, percentChangePrice)

ElasticityPrices ==
    {Int2Num(i) : i \in -1..MaxPrice} \cup {Int2Num(90), Int2Num(100)}

ElasticityQuantities ==
    {Int2Num(i) : i \in -1..MaxQuantity} \cup {Int2Num(100), Int2Num(120)}

ElasticityInputs ==
    [fn : {"calculatePriceElasticity"},
     oldPrice : ElasticityPrices, newPrice : ElasticityPrices,
     oldQuantity : ElasticityQuantities, newQuantity : ElasticityQuantities]

InitElasticity ==
    /\ calcIn \in ElasticityInputs
    /\ calcOut = Pending
    /\ optIn = Idle /\ optOut = Idle /\ optPrev = NoCall
    /\ grdIn = Idle /\ grdOut = Idle
    /\ sigIn = Idle /\ sigOut = Idle
    /\ hook = Idle /\ apiCalls = Idle /\ browser = Idle
    /\ requests = Idle /\ db = Idle

\* calculatePriceElasticity(oldPrice, newPrice, oldQuantity, newQuantity)
EstimateElasticity ==
    /\ calcIn.fn = "calculatePriceElasticity"
    /\ calcOut.outcome = "pending"
    /\ calcOut' = Returned(calculatePriceElasticity(calcIn.oldPrice, calcIn.newPrice,
                                                     calcIn.oldQuantity, calcIn.newQuantity))
    /\ UNCHANGED <<optIn, optOut, optPrev, grdIn, grdOut, sigIn, sigOut, calcIn,
                 hook, apiCalls, browser, requests, db>>

NextElasticity == EstimateElasticity

SpecElasticity == InitElasticity /\ [][NextElasticity]_vars

ElasticityDone ==
    calcIn.fn = "calculatePriceElasticity" /\ calcOut.outcome = "returned"

Degenerate(input) ==
    \/ input.oldPrice.n = 0
    \/ input.oldQuantity.n = 0
    \/ input.newPrice = input.oldPrice

\* C16: with oldPrice = 0, or oldQuantity = 0, or newPrice = oldPrice, the
\* elasticity is exactly 0, never NaN or Infinity, whatever the remaining
\* arguments are.
C16_DegenerateElasticityIsZero ==
    (ElasticityDone /\ Degenerate(calcIn)) => calcOut.value = Int2Num(0)

\* An unchanged non-zero price with a changed quantity.
C16_Witness ==
    /\ ElasticityDone
    /\ calcIn.oldPrice.n # 0 /\ calcIn.oldQuantity.n # 0
    /\ calcIn.newPrice = calcIn.oldPrice
    /\ calcIn.newQuantity # calcIn.oldQuantity
    /\ calcOut.value = Int2Num(0)

IsPriceCutExample(input) ==
    /\ input.oldPrice = Int2Num(100) /\ input.newPrice = Int2Num(90)
    /\ input.oldQuantity = Int2Num(100) /\ input.newQuantity = Int2Num(120)

\* C17: with oldPrice # 0, oldQuantity # 0 and newPrice # oldPrice the
\* elasticity is ((newQuantity - oldQuantity) / oldQuantity) divided by
\* ((newPrice - oldPrice) / oldPrice); for (100, 90, 100, 120) it is -2.
C17_ElasticityIsRatioOfRelativeChanges ==
    (ElasticityDone /\ ~Degenerate(calcIn)) =>
        /\ calcOut.value =
               Fin((calcIn.newQuantity.n - calcIn.oldQuantity.n) * calcIn.oldPrice.n,
                   calcIn.oldQuantity.n * (calcIn.newPrice.n - calcIn.oldPrice.n))
        /\ IsPriceCutExample(calcIn) => calcOut.value = Int2Num(-2)

\* calculatePriceElasticity(100, 90, 100, 120) returned -2.
C17_Witness ==
    ElasticityDone /\ IsPriceCutExample(calcIn) /\ calcOut.value = Int2Num(-2)

(***************************************************************************)
(* The percentage helpers.                                                 *)
(***************************************************************************)
calculateMarkup(price, cost) ==
    IF StrictEq(cost, Int2Num(0)) THEN Int2Num(0)
    ELSE Mul(Div(Sub(price, cost), cost), Int2Num(100))

calculateROI(profit, investment) ==
    IF StrictEq(investment, Int2Num(0)) THEN Int2Num(0)
    ELSE Mul(Div(profit, investment), Int2Num(100))

\* Faulty variant: a change from 0 is always reported as 0.
calculatePercentageChange_ZeroFromZero(oldValue, newValue) ==
    IF StrictEq(oldValue, Int2Num(0)) THEN Int2Num(0)
    ELSE Mul(Div(Sub(newValue, oldValue), oldValue), Int2Num(100))

calculatePercentageChange(oldValue, newValue) ==
    IF StrictEq(oldValue, Int2Num(0))
    THEN (IF StrictEq(newValue, Int2Num(0)) THEN Int2Num(0) ELSE Int2Num(100))
    ELSE Mul(Div(Sub(newValue, oldValue), oldValue), Int2Num(100))

calculatePercentageOfTotal(value, total) ==
    IF StrictEq(total, Int2Num(0)) THEN Int2Num(0)
    ELSE Mul(Div(value, total), Int2Num(100))

calculateConversionRate(conversions, visitors) ==
    IF StrictEq(visitors, Int2Num(0)) THEN Int2Num(0)
    ELSE Mul(Div(conversions, visitors), Int2Num(100))

calculateAbandonmentRate(started, completed) ==
    IF StrictEq(started, Int2Num(0)) THEN Int2Num(0)
    ELSE Mul(Div(Sub(started, completed), started), Int2Num(100))

PctHelpers ==
    {"calculateMargin", "calculateMarkup", "calculatePriceFromMargin",
     "calculateROI", "calculatePercentageChange", "calculatePercentageOfTotal",
     "calculateConversionRate", "calculateAbandonmentRate"}

PctArgs ==
    {Int2Num(i) : i \in -1..MaxCost} \cup Margins \cup {Int2Num(20), Int2Num(80)}

PctInputs ==
    {[fn |-> f, args |-> <<a, b>>, prev |-> << >>] :
        f \in PctHelpers, a \in PctArgs, b \in PctArgs}

InitPct ==
    /\ calcIn \in PctInputs
    /\ calcOut = Pending
    /\ optIn = Idle /\ optOut = Idle /\ optPrev = NoCall
    /\ grdIn = Idle /\ grdOut = Idle
    /\ sigIn = Idle /\ sigOut = Idle
    /\ hook = Idle /\ apiCalls = Idle /\ browser = Idle
    /\ requests = Idle /\ db = Idle

\* calculateMargin(price, cost)
CallMargin ==
    /\ calcIn.fn = "calculateMargin"
    /\ calcOut.outcome = "pending"
    /\ calcOut' = Returned(calculateMargin(calcIn.args[1], calcIn.args[2]))
    /\ UNCHANGED <<optIn, optOut, optPrev, grdIn, grdOut, sigIn, sigOut, calcIn,
                 hook, apiCalls, browser, requests, db>>

\* calculateMarkup(price, cost)
CallMarkup ==
    /\ calcIn.fn = "calculateMarkup"
    /\ calcOut.outcome = "pending"
    /\ calcOut' = Returned(calculateMarkup(calcIn.args[1], calcIn.args[2]))
    /\ UNCHANGED <<optIn, optOut, optPrev, grdIn, grdOut, sigIn, sigOut, calcIn,
                 hook, apiCalls, browser, requests, db>>

\* calculatePriceFromMargin(cost, marginPercent)
CallPriceFromMargin ==
    /\ calcIn.fn = "calculatePriceFromMargin"
    /\ calcOut.outcome = "pending"
    /\ calcOut' = Returned(calculatePriceFromMargin(calcIn.args[1], calcIn.args[2]))
    /\ UNCHANGED <<optIn, optOut, optPrev, grdIn, grdOut, sigIn, sigOut, calcIn,
                 hook, apiCalls, browser, requests, db>>

\* calculateROI(profit, investment)
CallROI ==
    /\ calcIn.fn = "calculateROI"
    /\ calcOut.outcome = "pending"
    /\ calcOut' = Returned(calculateROI(calcIn.args[1], calcIn.args[2]))
    /\ UNCHANGED <<optIn, optOut, optPrev, grdIn, grdOut, sigIn, sigOut, calcIn,
                 hook, apiCalls, browser, requests, db>>

\* calculatePercentageChange(oldValue, newValue)
CallPercentageChange ==
    /\ calcIn.fn = "calculatePercentageChange"
    /\ calcOut.outcome = "pending"
    /\ calcOut' = Returned(calculatePercentageChange(calcIn.args[1], calcIn.args[2]))
    /\ UNCHANGED <<optIn, optOut, optPrev, grdIn, grdOut, sigIn, sigOut, calcIn,
                 hook, apiCalls, browser, requests, db>>

\* calculatePercentageOfTotal(value, total)
CallPercentageOfTotal ==
    /\ calcIn.fn = "calculatePercentageOfTotal"
    /\ calcOut.outcome = "pending"
    /\ calcOut' = Returned(calculatePercentageOfTotal(calcIn.args[1], calcIn.args[2]))
    /\ UNCHANGED <<optIn, optOut, optPrev, grdIn, grdOut, sigIn, sigOut, calcIn,
                 hook, apiCalls, browser, requests, db>>

\* calculateConversionRate(conversions, visitors)
CallConversionRate ==
    /\ calcIn.fn = "calculateConversionRate"
    /\ calcOut.outcome = "pending"
    /\ calcOut' = Returned(calculateConversionRate(calcIn.args[1], calcIn.args[2]))
    /\ UNCHANGED <<optIn, optOut, optPrev, grdIn, grdOut, sigIn, sigOut, calcIn,
                 hook, apiCalls, browser, requests, db>>

\* calculateAbandonmentRate(started, completed)
CallAbandonmentRate ==
    /\ calcIn.fn = "calculateAbandonmentRate"
    /\ calcOut.outcome = "pending"
    /\ calcOut' = Returned(calculateAbandonmentRate(calcIn.args[1], calcIn.args[2]))
    /\ UNCHANGED <<optIn, optOut, optPrev, grdIn, grdOut, sigIn, sigOut, calcIn,
                 hook, apiCalls, browser, requests, db>>

\* calculateMargin(result, cost) on the result of
\* calculatePriceFromMargin(cost, marginPercent): the call is set up here and
\* made by CallMargin.
MarginOfPrice ==
    /\ calcIn.fn = "calculatePriceFromMargin"
    /\ calcOut.outcome = "returned"
    /\ calcIn' = [fn |-> "calculateMargin",
                   args |-> <<calcOut.value, calcIn.args[1]>>,
                   prev |-> <<calcIn>>]
    /\ calcOut' = Pending
    /\ UNCHANGED <<optIn, optOut, optPrev, grdIn, grdOut, sigIn, sigOut,
                 hook, apiCalls, browser, requests, db>>

NextPct ==
    \/ CallMargin
    \/ CallMarkup
    \/ CallPriceFromMargin
    \/ CallROI
    \/ CallPercentageChange
    \/ CallPercentageOfTotal
    \/ CallConversionRate
    \/ CallAbandonmentRate
    \/ MarginOfPrice

SpecPct == InitPct /\ [][NextPct]_vars

PctDone == calcIn.fn \in PctHelpers /\ calcOut.outcome = "returned"

RoundTripDone ==
    /\ calcIn.fn = "calculateMargin" /\ calcIn.prev # << >>
    /\ calcOut.outcome = "returned"

Denominator(input) ==
    IF input.fn \in {"calculateMargin", "calculatePercentageChange",
                     "calculateAbandonmentRate"}
    THEN input.args[1]
    ELSE input.args[2]

ZeroDenominatorCall ==
    /\ PctDone
    /\ calcIn.fn # "calculatePriceFromMargin"
    /\ IsZero(Denominator(calcIn))

MaxSample == 3
MaxLen == 4

\* Faulty variant: the empty sequence is averaged like any other.
calculateAverage_NoEmptyGuard(values) ==
    Div(SumOf(values), Int2Num(Len(values)))

calculateAverage(values) ==
    IF Len(values) = 0 THEN Int2Num(0)
    ELSE Div(SumOf(values), Int2Num(Len(values)))

\* v put into the ascending sequence sorted, after the elements not above it.
RECURSIVE InsertSorted(_, _)
InsertSorted(sorted, v) ==
    IF sorted = << >> THEN <<v>>
    ELSE IF Lt(v, Head(sorted)) THEN <<v>> \o sorted
    ELSE <<Head(sorted)>> \o InsertSorted(Tail(sorted), v)

\* [...values].sort((a, b) => a - b)
RECURSIVE SortAscending(_)
SortAscending(values) ==
    IF values = << >> THEN << >>
    ELSE InsertSorted(SortAscending(SubSeq(values, 1, Len(values) - 1)),
                      values[Len(values)])

\* Faulty variant: the values are not sorted before the middle is taken.
calculateMedian_Unsorted(values) ==
    IF Len(values) = 0 THEN Int2Num(0)
    ELSE LET sorted == values
             middle == Len(sorted) \div 2
         IN  IF Len(sorted) % 2 = 0
             THEN Div(Add(sorted[middle], sorted[middle + 1]), Int2Num(2))
             ELSE sorted[middle + 1]

calculateMedian(values) ==
    IF Len(values) = 0 THEN Int2Num(0)
    ELSE LET sorted == SortAscending(values)
             middle == Len(sorted) \div 2
         IN  IF Len(sorted) % 2 = 0
             THEN Div(Add(sorted[middle], sorted[middle + 1]), Int2Num(2))
             ELSE sorted[middle + 1]

\* Faulty variant: the squared differences are averaged over N - 1.
calculateStandardDeviation_Sample(values) ==
    IF Len(values) = 0 THEN Int2Num(0)
    ELSE LET mean == calculateAverage(values)
             squaredDifferences ==
                 [i \in 1..Len(values) |->
                     Mul(Sub(values[i], mean), Sub(values[i], mean))]
             variance == Div(SumOf(squaredDifferences), Int2Num(Len(values) - 1))
         IN  MathSqrt(variance)

calculateStandardDeviation(values) ==
    IF Len(values) = 0 THEN Int2Num(0)
    ELSE LET mean == calculateAverage(values)
             squaredDifferences ==
                 [i \in 1..Len(values) |->
                     Mul(Sub(values[i], mean), Sub(values[i], mean))]
             variance == calculateAverage(squaredDifferences)
         IN  MathSqrt(variance)

StatsHelpers ==
    {"calculateAverage", "calculateMedian", "calculateStandardDeviation"}

Samples == {Int2Num(i) : i \in -1..MaxSample}

SampleSeqs == UNION {[1..len -> Samples] : len \in 0..MaxLen}

InitStats ==
    /\ calcIn \in {[fn |-> f, values |-> v] : f \in StatsHelpers, v \in SampleSeqs}
    /\ calcOut = Pending
    /\ optIn = Idle /\ optOut = Idle /\ optPrev = NoCall
    /\ grdIn = Idle /\ grdOut = Idle
    /\ sigIn = Idle /\ sigOut = Idle
    /\ hook = Idle /\ apiCalls = Idle /\ browser = Idle
    /\ requests = Idle /\ db = Idle

\* calculateAverage(values)
CallAverage ==
    /\ calcIn.fn = "calculateAverage"
    /\ calcOut.outcome = "pending"
    /\ calcOut' = Returned(calculateAverage(calcIn.values))
    /\ UNCHANGED <<optIn, optOut, optPrev, grdIn, grdOut, sigIn, sigOut, calcIn,
                 hook, apiCalls, browser, requests, db>>

\* calculateMedian(values)
CallMedian ==
    /\ calcIn.fn = "calculateMedian"
    /\ calcOut.outcome = "pending"
    /\ calcOut' = Returned(calculateMedian(calcIn.values))
    /\ UNCHANGED <<optIn, optOut, optPrev, grdIn, grdOut, sigIn, sigOut, calcIn,
                 hook, apiCalls, browser, requests, db>>

\* calculateStandardDeviation(values)
CallStandardDeviation ==
    /\ calcIn.fn = "calculateStandardDeviation"
    /\ calcOut.outcome = "pending"
    /\ calcOut' = Returned(calculateStandardDeviation(calcIn.values))
    /\ UNCHANGED <<optIn, optOut, optPrev, grdIn, grdOut, sigIn, sigOut, calcIn,
                 hook, apiCalls, browser, requests, db>>

NextStats == CallAverage \/ CallMedian \/ CallStandardDeviation

SpecStats == InitStats /\ [][NextStats]_vars

StatsDone == calcIn.fn \in StatsHelpers /\ calcOut.outcome = "returned"

\* C20: calculateAverage, calculateMedian and calculateStandardDeviation
\* each return 0 for the empty sequence.
C20_EmptySequenceGivesZero ==
    (StatsDone /\ calcIn.values = << >>) => calcOut.value = Int2Num(0)

\* calculateStandardDeviation([]) returned 0.
C20_Witness ==
    /\ StatsDone
    /\ calcIn.fn = "calculateStandardDeviation"
    /\ calcIn.values = << >>
    /\ calcOut.value = Int2Num(0)

\* The number of elements of values below v, and not above v.
CountBelow(values, v) == Cardinality({i \in 1..Len(values) : values[i].n < v.n})

CountUpTo(values, v) == Cardinality({i \in 1..Len(values) : values[i].n <= v.n})

\* v is the k-th element of values in ascending numeric order.
IsKthSmallest(values, v, k) ==
    /\ \E i \in 1..Len(values) : values[i] = v
    /\ CountBelow(values, v) < k
    /\ k <= CountUpTo(values, v)

\* C21: calculateMedian returns the middle element of the values in
\* ascending numeric order when the length is odd, and the average of the
\* two central elements of that order when the length is even, in whatever
\* order the values were supplied.
C21_MedianOfAscendingOrder ==
    (StatsDone /\ calcIn.fn = "calculateMedian" /\ calcIn.values # << >>) =>
        LET values == calcIn.values
            half == Len(values) \div 2
        IN  IF Len(values) % 2 = 1
            THEN IsKthSmallest(values, calcOut.value, half + 1)
            ELSE \E i, j \in 1..Len(values) :
                    /\ IsKthSmallest(values, values[i], half)
                    /\ IsKthSmallest(values, values[j], half + 1)
                    /\ calcOut.value = Fin(values[i].n + values[j].n, 2)

\* The median of 3, 0, 2, 1, supplied out of order, is 3/2.
C21_Witness ==
    /\ StatsDone /\ calcIn.fn = "calculateMedian"
    /\ calcIn.values = <<Int2Num(3), Int2Num(0), Int2Num(2), Int2Num(1)>>
    /\ calcOut.value = Fin(3, 2)

\* The population variance of integer values: (N * sum(x^2) - (sum x)^2) / N^2.
PopulationVariance(values) ==
    LET N == Len(values)
        sq == SumOf([i \in 1..N |-> Mul(values[i], values[i])])
        sm == SumOf(values)
    IN  Fin(N * sq.n - sm.n * sm.n, N * N)

AllEqual(values) == \A i, j \in 1..Len(values) : values[i] = values[j]

\* dev, a number of at most four decimals, in units of 1 / FxScale.
InFxUnits(dev) == dev.n * (FxScale \div dev.d)

MaxCalls == 3

\* Faulty variant: the caller's array is sorted in place.
ValuesAfterMedian_SortedInPlace(values) == SortAscending(values)

\* The caller's array after calculateMedian(values): the sort works on the
\* copy [...values], values itself is not written.
ValuesAfterMedian(values) == values

OptimalPriceCalls ==
    {<<Int2Num(1), Int2Num(50), cp, Fin(1, 2), Int2Num(0), Int2Num(3)>> :
        cp \in {Int2Num(1), Int2Num(3)}}

SignificanceCalls ==
    {<<Int2Num(1), Int2Num(3), Int2Num(2), Int2Num(3), << >>>>}

MedianCalls == {<<<<Int2Num(3), Int2Num(1), Int2Num(2)>>>>}

Calls ==
    {[fn |-> "calculateOptimalPrice", given |-> a, args |-> a] : a \in OptimalPriceCalls}
    \cup {[fn |-> "calculateStatisticalSignificance", given |-> a, args |-> a] :
             a \in SignificanceCalls}
    \cup {[fn |-> "calculateMedian", given |-> a, args |-> a] : a \in MedianCalls}

InitCalls ==
    /\ calcIn \in [1..MaxCalls -> Calls]
    /\ calcOut = [results |-> [i \in 1..MaxCalls |-> Pending], order |-> << >>]
    /\ optIn = Idle /\ optOut = Idle /\ optPrev = NoCall
    /\ grdIn = Idle /\ grdOut = Idle
    /\ sigIn = Idle /\ sigOut = Idle
    /\ hook = Idle /\ apiCalls = Idle /\ browser = Idle
    /\ requests = Idle /\ db = Idle

Completed(i, result) ==
    [results |-> [calcOut.results EXCEPT ![i] = result],
     order |-> Append(calcOut.order, i)]

\* calculateOptimalPrice(baseCost, targetMargin, competitorPrice,
\*                       competitorWeight, minPrice, maxPrice)
RunOptimalPrice(i) ==
    /\ calcIn[i].fn = "calculateOptimalPrice"
    /\ calcOut.results[i].outcome = "pending"
    /\ LET a == calcIn[i].args
       IN  calcOut' = Completed(i, Returned(calculateOptimalPrice(a[1], a[2], a[3],
                                                                  a[4], a[5], a[6])))
    /\ UNCHANGED <<optIn, optOut, optPrev, grdIn, grdOut, sigIn, sigOut, calcIn,
                 hook, apiCalls, browser, requests, db>>

\* calculateStatisticalSignificance(controlConversions, controlVisitors,
\*                                  variantConversions, variantVisitors)
RunSignificance(i) ==
    /\ calcIn[i].fn = "calculateStatisticalSignificance"
    /\ calcOut.results[i].outcome = "pending"
    /\ LET a == calcIn[i].args
       IN  calcOut' = Completed(i, calculateStatisticalSignificance(a[1], a[2], a[3],
                                                                    a[4], a[5]))
    /\ UNCHANGED <<optIn, optOut, optPrev, grdIn, grdOut, sigIn, sigOut, calcIn,
                 hook, apiCalls, browser, requests, db>>

\* calculateMedian(values)
RunMedian(i) ==
    /\ calcIn[i].fn = "calculateMedian"
    /\ calcOut.results[i].outcome = "pending"
    /\ calcOut' = Completed(i, Returned(calculateMedian(calcIn[i].args[1])))
    /\ calcIn' = [calcIn EXCEPT ![i].args = <<ValuesAfterMedian(calcIn[i].args[1])>>]
    /\ UNCHANGED <<optIn, optOut, optPrev, grdIn, grdOut, sigIn, sigOut,
                 hook, apiCalls, browser, requests, db>>

NextCalls ==
    \E i \in 1..MaxCalls : RunOptimalPrice(i) \/ RunSignificance(i) \/ RunMedian(i)

SpecCalls == InitCalls /\ [][NextCalls]_vars

CallDone(i) == calcOut.results[i].outcome # "pending"

ResultAlone(call) ==
    LET a == call.given
    IN  IF call.fn = "calculateOptimalPrice"
        THEN Returned(calculateOptimalPrice(a[1], a[2], a[3], a[4], a[5], a[6]))
        ELSE IF call.fn = "calculateStatisticalSignificance"
        THEN calculateStatisticalSignificance(a[1], a[2], a[3], a[4], a[5])
        ELSE Returned(calculateMedian(a[1]))

MaxOps == 2
MaxProducts == 1

Row(id, price) == [id |-> id, currentPrice |-> price]

\* The price the listed products have, and the price a mutation gives.
ListedPrice == {1}

NewPrice == {2}

ProductLists == {[i \in 1..n |-> Row(i, p)] : n \in 0..MaxProducts, p \in ListedPrice}

\* The errors a call can be rejected with: error.response.data.message and
\* error.message, each present (<<text>>) or absent (<< >>).
ApiErrors ==
    {[responseMessage |-> <<"Product not found">>, message |-> <<"Request failed">>],
     [responseMessage |-> << >>, message |-> <<"Network Error">>],
     [responseMessage |-> << >>, message |-> << >>]}

\* Faulty variant: the message of the response is ignored.
handleAPIError_MessageOnly(error) ==
    IF error.message # << >> /\ error.message[1] # "" THEN error.message[1]
    ELSE "An unexpected error occurred"

handleAPIError(error) ==
    IF error.responseMessage # << >> /\ error.responseMessage[1] # ""
    THEN error.responseMessage[1]
    ELSE IF error.message # << >> /\ error.message[1] # "" THEN error.message[1]
    ELSE "An unexpected error occurred"

HookNames == {"useProducts", "useProduct", "usePricing", "useCompetitorPrices"}

\* useState(true) in useProducts and useProduct, useState(false) in the others.
InitialLoading(name) == name \in {"useProducts", "useProduct"}

\* The data a successful fetch of the hook can be answered with.
FetchResponses(name) ==
    IF name = "useProduct" THEN {<<Row(1, p)>> : p \in ListedPrice \cup NewPrice}
    ELSE ProductLists

NoArg == Row(0, 0)

Call(kind, arg, snapshot) ==
    [kind |-> kind, arg |-> arg, snapshot |-> snapshot,
     status |-> "sent", reply |-> << >>]

Settled(call, status, reply) == [call EXCEPT !.status = status, !.reply = <<reply>>]

\* The state after the first render, and, for useProducts, the states after
\* a completed load.  param is the id, productId or competitorId the hook
\* was mounted with (<< >> when absent; useProducts takes none).
InitHooks ==
    /\ hook \in
          {[name |-> n, param |-> q, data |-> << >>,
            loading |-> InitialLoading(n), error |-> << >>] :
              n \in HookNames \ {"useProducts"}, q \in {<< >>, <<1>>}}
          \cup {[name |-> "useProducts", param |-> << >>, data |-> << >>,
                  loading |-> TRUE, error |-> << >>]}
          \cup {[name |-> "useProducts", param |-> << >>, data |-> d,
                  loading |-> FALSE, error |-> << >>] : d \in ProductLists}
    /\ apiCalls = << >>
    /\ browser = Idle /\ requests = Idle /\ db = Idle
    /\ optIn = Idle /\ optOut = Idle /\ optPrev = NoCall
    /\ grdIn = Idle /\ grdOut = Idle
    /\ sigIn = Idle /\ sigOut = Idle
    /\ calcIn = Idle /\ calcOut = Idle

\* fetchProducts, fetchProduct, fetchPriceHistory, fetchCompetitorPrices up
\* to the await (from the mount effect or refresh): without an id the last
\* three are not started or return at once.
FetchStart ==
    /\ Len(apiCalls) < MaxOps
    /\ hook.name = "useProducts" \/ hook.param # << >>
    /\ hook' = [hook EXCEPT !.loading = TRUE, !.error = << >>]
    /\ apiCalls' = Append(apiCalls, Call("fetch", NoArg, << >>))
    /\ UNCHANGED <<optIn, optOut, optPrev, grdIn, grdOut, sigIn, sigOut, calcIn, calcOut,
                 browser, requests, db>>

\* The fetch is answered: setData(response.data), finally setLoading(false).
FetchResolve ==
    /\ \E i \in 1..Len(apiCalls), data \in FetchResponses(hook.name) :
          /\ apiCalls[i].kind = "fetch" /\ apiCalls[i].status = "sent"
          /\ hook' = [hook EXCEPT !.data = data, !.loading = FALSE]
          /\ apiCalls' = [apiCalls EXCEPT ![i] = Settled(@, "resolved", data)]
    /\ UNCHANGED <<optIn, optOut, optPrev, grdIn, grdOut, sigIn, sigOut, calcIn, calcOut,
                 browser, requests, db>>

\* The fetch fails: setError(handleAPIError(err)), finally setLoading(false);
\* the error is not rethrown.
FetchReject ==
    /\ \E i \in 1..Len(apiCalls), err \in ApiErrors :
          /\ apiCalls[i].kind = "fetch" /\ apiCalls[i].status = "sent"
          /\ hook' = [hook EXCEPT !.error = <<handleAPIError(err)>>,
                                   !.loading = FALSE]
          /\ apiCalls' = [apiCalls EXCEPT ![i] = Settled(@, "failed", err)]
    /\ UNCHANGED <<optIn, optOut, optPrev, grdIn, grdOut, sigIn, sigOut, calcIn, calcOut,
                 browser, requests, db>>

\* createProduct, updateProduct, deleteProduct, updatePrice up to the await:
\* setError(null) and the request; products is the closure's.
StartMutation(kind, arg) ==
    /\ hook.name = "useProducts"
    /\ Len(apiCalls) < MaxOps
    /\ hook' = [hook EXCEPT !.error = << >>]
    /\ apiCalls' = Append(apiCalls, Call(kind, arg, hook.data))
    /\ UNCHANGED <<optIn, optOut, optPrev, grdIn, grdOut, sigIn, sigOut, calcIn, calcOut,
                 browser, requests, db>>

createProduct == \E p \in NewPrice : StartMutation("createProduct", Row(0, p))

updateProduct ==
    \E id \in 1..MaxProducts, p \in NewPrice : StartMutation("updateProduct", Row(id, p))

deleteProduct == \E id \in 1..MaxProducts : StartMutation("deleteProduct", Row(id, 0))

updatePrice ==
    \E id \in 1..MaxProducts, p \in NewPrice : StartMutation("updatePrice", Row(id, p))

Mutations == {"createProduct", "updateProduct", "deleteProduct", "updatePrice"}

\* p put in place of the element of products with its id.
ReplaceById(products, p) ==
    [k \in 1..Len(products) |-> IF products[k].id = p.id THEN p ELSE products[k]]

\* products.filter(p => p.id !== id)
FilterOutId(products, id) == SelectSeq(products, LAMBDA q : q.id # id)

\* The argument of setProducts after the await, from the products the
\* closure holds and the response.
ProductsAfter(kind, products, arg, data) ==
    IF kind = "createProduct" THEN Append(products, data)
    ELSE IF kind = "updateProduct" THEN ReplaceById(products, data)
    ELSE IF kind = "deleteProduct" THEN FilterOutId(products, arg.id)
    ELSE ReplaceById(products, Row(arg.id, arg.currentPrice))

\* response.data of the i-th call, a mutation: the created product under a
\* new id given by the server, the updated product, or nothing of use.
MutationResponses(i, call) ==
    IF call.kind = "createProduct"
    THEN {Row(MaxProducts + i, call.arg.currentPrice)}
    ELSE IF call.kind = "updateProduct" THEN {call.arg}
    ELSE {NoArg}

\* The mutation is answered: setProducts(...) computed from the products of
\* the render the mutation was called in.
MutationResolve ==
    /\ \E i \in 1..Len(apiCalls) :
          /\ apiCalls[i].kind \in Mutations /\ apiCalls[i].status = "sent"
          /\ \E data \in MutationResponses(i, apiCalls[i]) :
                /\ hook' = [hook EXCEPT !.data =
                               ProductsAfter(apiCalls[i].kind, apiCalls[i].snapshot,
                                             apiCalls[i].arg, data)]
                /\ apiCalls' = [apiCalls EXCEPT ![i] = Settled(@, "resolved", data)]
    /\ UNCHANGED <<optIn, optOut, optPrev, grdIn, grdOut, sigIn, sigOut, calcIn, calcOut,
                 browser, requests, db>>

\* The mutation fails: setError(handleAPIError(err)); throw err.
MutationReject ==
    /\ \E i \in 1..Len(apiCalls), err \in ApiErrors :
          /\ apiCalls[i].kind \in Mutations /\ apiCalls[i].status = "sent"
          /\ hook' = [hook EXCEPT !.error = <<handleAPIError(err)>>]
          /\ apiCalls' = [apiCalls EXCEPT ![i] = Settled(@, "rejected", err)]
    /\ UNCHANGED <<optIn, optOut, optPrev, grdIn, grdOut, sigIn, sigOut, calcIn, calcOut,
                 browser, requests, db>>

\* optimizePrices of usePricing up to the await: setError(null) and the
\* request.  arg.id is 1 when productIds includes the hook's productId.
optimizePrices ==
    /\ hook.name = "usePricing"
    /\ Len(apiCalls) < MaxOps
    /\ \E includes \in {0, 1} :
          apiCalls' = Append(apiCalls, Call("optimizePrices", Row(includes, 0), << >>))
    /\ hook' = [hook EXCEPT !.error = << >>]
    /\ UNCHANGED <<optIn, optOut, optPrev, grdIn, grdOut, sigIn, sigOut, calcIn, calcOut,
                 browser, requests, db>>

\* The optimization is answered; when the hook tracks a product that was
\* optimized, fetchPriceHistory is called.
OptimizeResolve ==
    /\ \E i \in 1..Len(apiCalls) :
          /\ apiCalls[i].kind = "optimizePrices" /\ apiCalls[i].status = "sent"
          /\ IF hook.param # << >> /\ apiCalls[i].arg.id = 1
             THEN /\ Len(apiCalls) < MaxOps
                  /\ hook' = [hook EXCEPT !.loading = TRUE, !.error = << >>]
                  /\ apiCalls' = Append([apiCalls EXCEPT ![i] = Settled(@, "resolved", NoArg)],
                                         Call("fetch", NoArg, << >>))
             ELSE /\ hook' = hook
                  /\ apiCalls' = [apiCalls EXCEPT ![i] = Settled(@, "resolved", NoArg)]
    /\ UNCHANGED <<optIn, optOut, optPrev, grdIn, grdOut, sigIn, sigOut, calcIn, calcOut,
                 browser, requests, db>>

\* The optimization fails: setError(handleAPIError(err)); throw err.
OptimizeReject ==
    /\ \E i \in 1..Len(apiCalls), err \in ApiErrors :
          /\ apiCalls[i].kind = "optimizePrices" /\ apiCalls[i].status = "sent"
          /\ hook' = [hook EXCEPT !.error = <<handleAPIError(err)>>]
          /\ apiCalls' = [apiCalls EXCEPT ![i] = Settled(@, "rejected", err)]
    /\ UNCHANGED <<optIn, optOut, optPrev, grdIn, grdOut, sigIn, sigOut, calcIn, calcOut,
                 browser, requests, db>>

NextHooks ==
    \/ FetchStart \/ FetchResolve \/ FetchReject
    \/ createProduct \/ updateProduct \/ deleteProduct \/ updatePrice
    \/ MutationResolve \/ MutationReject
    \/ optimizePrices \/ OptimizeResolve \/ OptimizeReject

SpecHooks == InitHooks /\ [][NextHooks]_vars

(***************************************************************************)
(* Properties of the hooks (checked under SpecHooks).                      *)
(***************************************************************************)
\* The message shown for an error: that of the response when there is one,
\* else that of the error, else the default text.
MessageOf(err) ==
    IF err.responseMessage # << >> THEN err.responseMessage[1]
    ELSE IF err.message # << >> THEN err.message[1]
    ELSE "An unexpected error occurred"

\* after is before with only the product targeted by the call added,
\* replaced, removed or re-priced.
OnlyTargetChanged(call, before, after) ==
    IF call.kind = "createProduct"
    THEN /\ Len(after) = Len(before) + 1
         /\ after[Len(after)] = call.reply[1]
         /\ \A k \in 1..Len(before) : after[k] = before[k]
    ELSE IF call.kind = "deleteProduct"
    THEN LET kept == {k \in 1..Len(before) : before[k].id # call.arg.id}
         IN  /\ Len(after) = Cardinality(kept)
             /\ \A k \in kept :
                    after[Cardinality({m \in kept : m <= k})] = before[k]
    ELSE /\ Len(after) = Len(before)
         /\ \A k \in 1..Len(before) :
                after[k] = IF before[k].id = call.arg.id
                           THEN Row(call.arg.id, call.arg.currentPrice)
                           ELSE before[k]

\* C25: when a mutation of useProducts is rejected, products is left
\* unchanged, error becomes the message derived by handleAPIError and the
\* rejection is rethrown; when it succeeds, error is null and only the
\* targeted product is added, replaced, removed or re-priced, all other
\* products staying as they are.
C25_MutationOutcome ==
    [][\A i \in 1..Len(apiCalls) :
          (apiCalls[i].kind \in Mutations /\ apiCalls[i].status = "sent"
              /\ apiCalls'[i].status # "sent") =>
              IF apiCalls'[i].status = "rejected"
              THEN /\ hook'.data = hook.data
                   /\ hook'.error = <<MessageOf(apiCalls'[i].reply[1])>>
              ELSE /\ apiCalls'[i].status = "resolved"
                   /\ hook'.error = << >>
                   /\ OnlyTargetChanged(apiCalls'[i], hook.data, hook'.data)]_vars

\* The effect of a successful mutation is present in products.
EffectVisible(call, products) ==
    IF call.kind = "createProduct"
    THEN \E k \in 1..Len(products) : products[k] = call.reply[1]
    ELSE IF call.kind = "deleteProduct"
    THEN \A k \in 1..Len(products) : products[k].id # call.arg.id
    ELSE /\ (\E k \in 1..Len(call.snapshot) : call.snapshot[k].id = call.arg.id)
            => \E k \in 1..Len(products) : products[k].id = call.arg.id
         /\ \A k \in 1..Len(products) :
                products[k].id = call.arg.id
                    => products[k].currentPrice = call.arg.currentPrice

\* Two mutations with different targets.
DifferentTargets(c1, c2) ==
    c1.kind = "createProduct" \/ c2.kind = "createProduct" \/ c1.arg.id # c2.arg.id

\* C26: when two mutations of useProducts started from the same rendered
\* state have both succeeded, products reflects both of them.
C26_NoLostMutation ==
    \A i, j \in 1..(IF hook.name = "useProducts" THEN Len(apiCalls) ELSE 0) :
        (/\ i < j
         /\ apiCalls[i].kind \in Mutations /\ apiCalls[j].kind \in Mutations
         /\ apiCalls[i].status = "resolved" /\ apiCalls[j].status = "resolved"
         /\ apiCalls[i].snapshot = apiCalls[j].snapshot
         /\ DifferentTargets(apiCalls[i], apiCalls[j])
         /\ \A k \in 1..Len(apiCalls) : k \in {i, j} \/ apiCalls[k].status = "sent") =>
            /\ EffectVisible(apiCalls[i], hook.data)
            /\ EffectVisible(apiCalls[j], hook.data)

FetchInFlight ==
    \E i \in 1..Len(apiCalls) : apiCalls[i].kind = "fetch" /\ apiCalls[i].status = "sent"

\* C27: when fetchProducts calls of useProducts overlap, products finally
\* holds the response of the call issued last, in whatever order the
\* responses arrive, and loading is false only when no fetch is in flight.
C27_LastFetchWins ==
    hook.name = "useProducts" =>
        /\ ~hook.loading => ~FetchInFlight
        /\ (/\ Len(apiCalls) >= 2
            /\ \A i \in 1..Len(apiCalls) :
                  apiCalls[i].kind = "fetch" /\ apiCalls[i].status = "resolved") =>
               hook.data = apiCalls[Len(apiCalls)].reply[1]

\* C28: every fetch of useProducts, useProduct, usePricing and
\* useCompetitorPrices sets loading to true and error to null when it
\* starts and sets loading to false when its API call settles; when the
\* call fails, error becomes the handleAPIError message and the data held
\* is left as it was.
C28_FetchLifecycle ==
    [][/\ (Len(apiCalls') > Len(apiCalls)
            /\ apiCalls'[Len(apiCalls')].kind = "fetch") =>
               hook'.loading = TRUE /\ hook'.error = << >>
       /\ \A i \in 1..Len(apiCalls) :
             (apiCalls[i].kind = "fetch" /\ apiCalls[i].status = "sent"
                 /\ apiCalls'[i].status # "sent") =>
                 /\ hook'.loading = FALSE
                 /\ apiCalls'[i].status = "failed" =>
                       /\ hook'.error = <<MessageOf(apiCalls'[i].reply[1])>>
                       /\ hook'.data = hook.data]_vars

\* A refresh of a loaded product list has failed with a response message:
\* loading is false again, error is that message, the list is still there.
C28_Witness ==
    /\ hook.name = "useProducts"
    /\ Len(apiCalls) = 1
    /\ apiCalls[1].kind = "fetch" /\ apiCalls[1].status = "failed"
    /\ apiCalls[1].reply[1].responseMessage = <<"Product not found">>
    /\ hook.error = <<"Product not found">>
    /\ hook.loading = FALSE
    /\ hook.data # << >>

(***************************************************************************)
(* The API client (services/api.ts).  browser holds the value stored under *)
(* 'authToken' in localStorage (<< >> when there is none) and              *)
(* window.location.href.  requests lists the requests made through the     *)
(* axios instance: the Authorization header given by the request           *)
(* interceptor, the value that was stored when the request was sent, and   *)
(* how the request ended.                                                  *)
(***************************************************************************)
MaxRequests == 2

\* The values found under 'authToken': none, an empty string, a token.
StoredTokens == {<< >>, <<"">>, <<"token-1">>}

\* if (token): null and the empty string are falsy.
Truthy(stored) == stored # << >> /\ stored[1] # ""

\* The request interceptor: config.headers.Authorization.
AuthorizationHeader(stored) ==
    IF Truthy(stored) THEN <<"Bearer", stored[1]>> ELSE << >>

\* Faulty variant: every error status is handled as unauthorized.
IsUnauthorized_AnyError(status) == status >= 400

\* error.response?.status === 401
IsUnauthorized(status) == status = 401

ErrorStatuses == {401, 403, 500}

InitClient ==
    /\ browser \in {[authToken |-> t, href |-> "/"] : t \in StoredTokens}
    /\ requests = << >>
    /\ hook = Idle /\ apiCalls = Idle /\ db = Idle
    /\ optIn = Idle /\ optOut = Idle /\ optPrev = NoCall
    /\ grdIn = Idle /\ grdOut = Idle
    /\ sigIn = Idle /\ sigOut = Idle
    /\ calcIn = Idle /\ calcOut = Idle

\* A request is made: the request interceptor reads the token and the
\* request is sent.
SendRequest ==
    /\ Len(requests) < MaxRequests
    /\ requests' = Append(requests,
                           [authorization |-> AuthorizationHeader(browser.authToken),
                            stored |-> browser.authToken,
                            status |-> "sent", response |-> 0])
    /\ UNCHANGED browser
    /\ UNCHANGED <<optIn, optOut, optPrev, grdIn, grdOut, sigIn, sigOut, calcIn, calcOut,
                 hook, apiCalls, db>>

\* A response with a 2xx status: the response interceptor passes it on.
ResponseSuccess ==
    /\ \E i \in 1..Len(requests) :
          /\ requests[i].status = "sent"
          /\ requests' = [requests EXCEPT ![i].status = "fulfilled",
                                           ![i].response = 200]
    /\ UNCHANGED browser
    /\ UNCHANGED <<optIn, optOut, optPrev, grdIn, grdOut, sigIn, sigOut, calcIn, calcOut,
                 hook, apiCalls, db>>

\* A response with an error status: on 401 the token is removed and the
\* browser sent to /login; the error is rejected in every case.
ResponseError ==
    /\ \E i \in 1..Len(requests), status \in ErrorStatuses :
          /\ requests[i].status = "sent"
          /\ requests' = [requests EXCEPT ![i].status = "rejected",
                                           ![i].response = status]
          /\ browser' = IF IsUnauthorized(status)
                         THEN [authToken |-> << >>, href |-> "/login"]
                         ELSE browser
    /\ UNCHANGED <<optIn, optOut, optPrev, grdIn, grdOut, sigIn, sigOut, calcIn, calcOut,
                 hook, apiCalls, db>>

\* The request fails without a response (error.response is undefined).
NetworkError ==
    /\ \E i \in 1..Len(requests) :
          /\ requests[i].status = "sent"
          /\ requests' = [requests EXCEPT ![i].status = "rejected"]
    /\ UNCHANGED browser
    /\ UNCHANGED <<optIn, optOut, optPrev, grdIn, grdOut, sigIn, sigOut, calcIn, calcOut,
                 hook, apiCalls, db>>

NextClient == SendRequest \/ ResponseSuccess \/ ResponseError \/ NetworkError

SpecClient == InitClient /\ [][NextClient]_vars

\* Every request has the header Bearer <token> when a (non-empty) token was
\* stored as it was sent, and no Authorization header otherwise.
HeaderIffTokenStored ==
    \A i \in 1..Len(requests) :
        IF requests[i].stored \in {<< >>, <<"">>}
        THEN requests[i].authorization = << >>
        ELSE requests[i].authorization = <<"Bearer", requests[i].stored[1]>>

\* A step in which a request ends with an error status rejects it; with
\* status 401 it removes the token and goes to /login, with any other
\* status it leaves the stored token as it is.
ErrorResponseEffect ==
    \A i \in 1..Len(requests) :
        (requests[i].status = "sent" /\ requests'[i].response \in ErrorStatuses) =>
            /\ requests'[i].status = "rejected"
            /\ IF requests'[i].response = 401
               THEN browser'.authToken = << >> /\ browser'.href = "/login"
               ELSE browser'.authToken = browser.authToken

\* C29: a request carries an Authorization: Bearer header if and only if
\* an authToken is stored when the request is sent; after a response with
\* status 401 the stored token is removed, the browser is redirected to
\* /login and the error is rejected to the caller; a response with another
\* error status leaves the stored token unchanged.
C29_BearerHeaderAndUnauthorized ==
    []HeaderIffTokenStored /\ [][ErrorResponseEffect]_vars

\* A request sent with the token was answered 401; the token is gone, the
\* browser is at /login, and the request sent after that has no header.
C29_Witness ==
    /\ Len(requests) = 2
    /\ requests[1].authorization = <<"Bearer", "token-1">>
    /\ requests[1].status = "rejected" /\ requests[1].response = 401
    /\ browser = [authToken |-> << >>, href |-> "/login"]
    /\ requests[2].stored = << >> /\ requests[2].authorization = << >>

(***************************************************************************)
(* The database schema (schema.sql): the products and price_changes tables *)
(* and the row trigger track_price_changes.  Prices are DECIMAL(10,2) and  *)
(* are counted in hundredths.  db.products gives each product's            *)
(* current_price (<< >> once the row is deleted), db.price_changes the     *)
(* rows of price_changes in insertion order, db.statement the last         *)
(* statement run and db.count how many were run.                           *)
(***************************************************************************)
MaxDbProducts == 2
MaxStatements == 3

ProductIds == 1..MaxDbProducts

\* Values of current_price: the column is NOT NULL and has no CHECK.
DbPrices == {0, 1, 2, 11}

NoStatement == [op |-> "none", id |-> 0, set |-> 0, outcome |-> "none"]

\* The generated column of price_changes,
\* (new_price - old_price) / old_price * 100 as DECIMAL(5,2), in
\* hundredths of a percent.
change_percentage(old_price, new_price) ==
    IF old_price = 0
    THEN [error |-> "division_by_zero", value |-> 0]
    ELSE LET diff == new_price - old_price
             magnitude == IF diff < 0 THEN -diff ELSE diff
             rounded == (2 * magnitude * 100 * 100 + old_price) \div (2 * old_price)
         IN  IF rounded >= 1000 * 100
             THEN [error |-> "numeric_field_overflow", value |-> 0]
             ELSE [error |-> "none",
                   value |-> IF diff < 0 THEN -rounded ELSE rounded]

\* INSERT INTO price_changes (product_id, old_price, new_price,
\* change_reason): the row with its generated column, or the error.
InsertPriceChange(rows, product_id, old_price, new_price, change_reason) ==
    LET pct == change_percentage(old_price, new_price)
    IN  IF pct.error # "none"
        THEN [error |-> pct.error, rows |-> rows]
        ELSE [error |-> "none",
              rows |-> Append(rows, [product_id |-> product_id,
                                     old_price |-> old_price,
                                     new_price |-> new_price,
                                     change_percentage |-> pct.value,
                                     change_reason |-> change_reason])]

\* The trigger function, run after the update of one row.
log_price_change(rows, id, old_current_price, new_current_price) ==
    IF old_current_price # new_current_price
    THEN InsertPriceChange(rows, id, old_current_price, new_current_price, "manual")
    ELSE [error |-> "none", rows |-> rows]

InitDb ==
    /\ db \in {[products |-> p, price_changes |-> << >>,
                 statement |-> NoStatement, count |-> 0] :
                    p \in [ProductIds -> {<<c>> : c \in DbPrices}]}
    /\ hook = Idle /\ apiCalls = Idle /\ browser = Idle /\ requests = Idle
    /\ optIn = Idle /\ optOut = Idle /\ optPrev = NoCall
    /\ grdIn = Idle /\ grdOut = Idle
    /\ sigIn = Idle /\ sigOut = Idle
    /\ calcIn = Idle /\ calcOut = Idle

\* UPDATE products SET current_price = price, ... WHERE id = id.  An error
\* raised in the trigger aborts the statement and nothing is changed.
UpdateProduct ==
    /\ db.count < MaxStatements
    /\ \E id \in ProductIds, price \in DbPrices :
          /\ db.products[id] # << >>
          /\ LET logged == log_price_change(db.price_changes, id,
                                            db.products[id][1], price)
                 outcome == IF logged.error = "none" THEN "ok" ELSE logged.error
                 statement == [op |-> "update", id |-> id, set |-> price,
                               outcome |-> outcome]
             IN  db' = IF logged.error = "none"
                       THEN [products |-> [db.products EXCEPT ![id] = <<price>>],
                             price_changes |-> logged.rows,
                             statement |-> statement,
                             count |-> db.count + 1]
                       ELSE [db EXCEPT !.statement = statement,
                                       !.count = db.count + 1]
    /\ UNCHANGED <<optIn, optOut, optPrev, grdIn, grdOut, sigIn, sigOut, calcIn, calcOut,
                 hook, apiCalls, browser, requests>>

\* DELETE FROM products WHERE id = id: the product's price_changes rows go
\* with it (ON DELETE CASCADE).
DeleteProduct ==
    /\ db.count < MaxStatements
    /\ \E id \in ProductIds :
          /\ db.products[id] # << >>
          /\ db' = [products |-> [db.products EXCEPT ![id] = << >>],
                    price_changes |-> SelectSeq(db.price_changes,
                                                LAMBDA row : row.product_id # id),
                    statement |-> [op |-> "delete", id |-> id, set |-> 0,
                                   outcome |-> "ok"],
                    count |-> db.count + 1]
    /\ UNCHANGED <<optIn, optOut, optPrev, grdIn, grdOut, sigIn, sigOut, calcIn, calcOut,
                 hook, apiCalls, browser, requests>>

NextDb == UpdateProduct \/ DeleteProduct

SpecDb == InitDb /\ [][NextDb]_vars

\* The price_changes rows of one product, in insertion order.
ChangesOf(id) == SelectSeq(db.price_changes, LAMBDA row : row.product_id = id)

\* The rows of each product chain from new_price to the next old_price and
\* end at the product's current_price.
PriceChain ==
    \A id \in ProductIds :
        LET rows == ChangesOf(id)
        IN  /\ \A k \in 1..(Len(rows) - 1) : rows[k].new_price = rows[k + 1].old_price
            /\ Len(rows) > 0 => db.products[id] = <<rows[Len(rows)].new_price>>

\* A step that runs an UPDATE setting a current_price other than the row's
\* inserts one row with the product's id, the old and the new price; one
\* setting the same current_price inserts none.
UpdateLogsChange ==
    (db'.count # db.count /\ db'.statement.op = "update") =>
        LET id == db'.statement.id
            old == db.products[id][1]
            new == db'.statement.set
        IN  IF old # new
            THEN /\ Len(db'.price_changes) = Len(db.price_changes) + 1
                 /\ SubSeq(db'.price_changes, 1, Len(db.price_changes)) = db.price_changes
                 /\ LET row == db'.price_changes[Len(db'.price_changes)]
                    IN  /\ row.product_id = id
                        /\ row.old_price = old
                        /\ row.new_price = new
            ELSE db'.price_changes = db.price_changes

\* C30: every UPDATE of a products row that changes current_price inserts
\* exactly one price_changes row with the product's id, the old price and
\* the new price, and an UPDATE that leaves current_price unchanged
\* inserts none; so the rows of a product chain from each new_price to the
\* next old_price and end at the product's current_price.
C30_EveryPriceUpdateLogged ==
    [][UpdateLogsChange]_vars /\ []PriceChain

====
